---- MODULE Spec2Model ----
(***************************************************************************)
(* Model of big3/agent/team.py: the pydantic configuration and response    *)
(* models (Model, AgentConfig, TeamConfig, CreateTeamResponse,             *)
(* AddAgentResponse) and the two client functions create_team and          *)
(* add_agent, executed line by line by several threads.                    *)
(***************************************************************************)
EXTENDS Integers, Sequences, FiniteSets, TLC

\* Number of threads that call the client functions concurrently.
NumThreads == 2

Threads == 1..NumThreads

-----------------------------------------------------------------------------
(* Python values.  Every value is a record [kind, val]; val is only looked  *)
(* at after kind has been tested.                                           *)

Absent == [kind |-> "absent", val |-> ""]      \* keyword argument / JSON key not given
None == [kind |-> "none", val |-> ""]
Str(s) == [kind |-> "str", val |-> s]
List == [kind |-> "list", val |-> ""]          \* a value that is neither str, dict nor None
Dict(d) == [kind |-> "dict", val |-> d]

\* Python truth value of an Optional[str] argument, as tested by `if api_key:`.
TruthyNotNone(v) == v.kind # "none"

Truthy(v) ==
    CASE v.kind = "none" -> FALSE
      [] v.kind = "str" -> v.val # ""
      [] OTHER -> TRUE

\* f"Bearer {api_key}"
Bearer(key) == "Bearer " \o key.val

\* headers = {}
EmptyDict == [k \in {} |-> ""]

\* d[k] = v on a dict with string keys
DictSet(d, k, v) == [x \in (DOMAIN d) \cup {k} |-> IF x = k THEN v ELSE d[x]]

-----------------------------------------------------------------------------
(* pydantic models.  A raw input is a record giving, for every declared     *)
(* field, the value passed for it (Absent when the key is not passed).      *)

\* `str = Field(...)`: required, must be a str (an empty str is a str).
RequiredStrOk(v) == v.kind = "str"

\* `Optional[str] = Field(None)`: may be left out or None, otherwise a str.
OptionalStrOk(v) == v.kind \in {"absent", "none", "str"}

\* `Optional[Dict[str, Any]] = Field(None)`
OptionalDictOk(v) == v.kind \in {"absent", "none", "dict"}

\* The value a field with default None takes.
Defaulted(v) == IF v.kind = "absent" THEN None ELSE v

ValidationFailure == [error |-> "ValidationError", ok |-> FALSE, value |-> None]

Valid(obj) == [error |-> "", ok |-> TRUE, value |-> obj]

\* class Model(BaseModel)
ModelOk(raw) ==
    /\ RequiredStrOk(raw.provider)
    /\ RequiredStrOk(raw.name)
    /\ OptionalStrOk(raw.version)
    /\ OptionalDictOk(raw.parameters)

ModelValue(raw) ==
    [provider |-> raw.provider, name |-> raw.name,
     version |-> Defaulted(raw.version), parameters |-> Defaulted(raw.parameters)]

ValidateModel(raw) == IF ModelOk(raw) THEN Valid(ModelValue(raw)) ELSE ValidationFailure

\* `model: Model = Field(...)`: required, a mapping that validates as a Model.
RequiredModelOkOptional(v) == v.kind \in {"absent", "none"} \/ (v.kind = "dict" /\ ModelOk(v.val))

RequiredModelOk(v) == v.kind = "dict" /\ ModelOk(v.val)

\* class AgentConfig(BaseModel)
AgentConfigOk(raw) ==
    /\ RequiredStrOk(raw.name)
    /\ RequiredModelOk(raw.model)
    /\ OptionalStrOk(raw.instructions)

AgentConfigValue(raw) ==
    [name |-> raw.name,
     model |-> IF raw.model.kind = "dict" THEN Dict(ModelValue(raw.model.val)) ELSE None,
     instructions |-> Defaulted(raw.instructions)]

ValidateAgentConfig(raw) ==
    IF AgentConfigOk(raw) THEN Valid(AgentConfigValue(raw)) ELSE ValidationFailure

\* class TeamConfig(BaseModel)
TeamConfigOk(raw) == RequiredStrOk(raw.name) /\ OptionalStrOk(raw.description)

TeamConfigValue(raw) == [name |-> raw.name, description |-> Defaulted(raw.description)]

ValidateTeamConfig(raw) ==
    IF TeamConfigOk(raw) THEN Valid(TeamConfigValue(raw)) ELSE ValidationFailure

\* class CreateTeamResponse(BaseModel)
CreateTeamResponseOk(raw) ==
    RequiredStrOk(raw.id) /\ RequiredStrOk(raw.name) /\ OptionalStrOk(raw.created_at)

ValidateCreateTeamResponse(raw) ==
    IF CreateTeamResponseOk(raw)
    THEN Valid([id |-> raw.id, name |-> raw.name, created_at |-> Defaulted(raw.created_at)])
    ELSE ValidationFailure

\* class AddAgentResponse(BaseModel); keys that are not declared fields are ignored
AddAgentResponseOk(raw) == RequiredStrOk(raw.id)

ValidateAddAgentResponse(raw) ==
    IF AddAgentResponseOk(raw) THEN Valid([id |-> raw.id]) ELSE ValidationFailure

\* The providers the description of Model.provider names.
Providers == {"openai", "anthropic", "google"}

-----------------------------------------------------------------------------
(* Inputs.                                                                  *)

BaseUrls == {"http://localhost:3000/api", "https://big3.test/api"}
TeamIds == {"missing"}
ApiKeys == {None, Str(""), Str("X")}

SampleParameters == Dict([temperature |-> "0.2"])

RawModels ==
    [provider : {Absent, Str("openai"), Str("anthropic"), Str("google"), Str("acme"), List},
     name : {Absent, Str(""), Str("gpt-4")},
     version : {Absent, Str("v1"), List},
     parameters : {Absent, SampleParameters, List}]

NestedRawModels ==
    {[provider |-> Str("openai"), name |-> Str("gpt-4"), version |-> Absent, parameters |-> SampleParameters],
     [provider |-> Str("acme"), name |-> Str(""), version |-> Str("v1"), parameters |-> Absent],
     [provider |-> Absent, name |-> Str("gpt-4"), version |-> Absent, parameters |-> Absent],
     [provider |-> Str("google"), name |-> Str("gemini"), version |-> List, parameters |-> Absent]}

RawAgentConfigs ==
    [name : {Absent, None, Str(""), Str("helper"), List},
     model : {Absent, None} \cup {Dict(m) : m \in NestedRawModels},
     instructions : {Absent, Str("be brief"), List}]

RawTeamConfigs ==
    [name : {Absent, None, Str(""), Str("Ops"), List},
     description : {Absent, Str("operations"), List}]

RawBodies ==
    [id : {Absent, None, Str("team_123")},
     name : {Absent, Str("Ops")},
     created_at : {Absent, Str("2024-01-01")}]

\* The configuration objects the callers pass: built by the validating constructors.
TeamConfigs ==
    {ValidateTeamConfig([name |-> Str("Ops"), description |-> Absent]).value}

AgentConfigs ==
    {ValidateAgentConfig(
        [name |-> Str("helper"),
         model |-> Dict([provider |-> Str("openai"), name |-> Str("gpt-4"),
                         version |-> Absent, parameters |-> SampleParameters]),
         instructions |-> Absent]).value}

\* What the mocked server of the test scenarios answers to a POST.
MockAnswers ==
    {[status |-> 201, body |-> [id |-> Str("team_123"), name |-> Str("Ops"), created_at |-> Absent]],
     [status |-> 201, body |-> [id |-> Absent, name |-> Str("Ops"), created_at |-> Absent]],
     [status |-> 404, body |-> [id |-> Absent, name |-> Absent, created_at |-> Absent]]}

\* The names bound at module level once team.py has been imported.
ModuleNames ==
    {"annotations", "Any", "Dict", "Optional", "BaseModel", "Field", "requests", "Response",
     "Model", "AgentConfig", "TeamConfig", "CreateTeamResponse", "AddAgentResponse",
     "create_team", "add_agent"}

-----------------------------------------------------------------------------
VARIABLES
    pc,            \* pc[t]: the line thread t is about to execute, "idle" outside a call
    op,            \* op[t]: the function thread t is in
    base_url,      \* arguments of the call of thread t
    team_id,
    config,
    api_key,
    headers,       \* headers[t]: the local variable `headers` of the call of thread t
    outcome,       \* outcome[t]: how the call of thread t ended
    sent,          \* sent[t]: HTTP requests issued by the call of thread t
    server,        \* the answer the mocked server gives to a POST
    module_names,  \* names bound in the module namespace
    built          \* the last construction of a pydantic model and its result

vars == <<pc, op, base_url, team_id, config, api_key, headers, outcome, sent, server,
          module_names, built>>

callvars == <<pc, op, base_url, team_id, config, api_key, headers, outcome, sent>>

NoOutcome == [kind |-> "none", type |-> "", value |-> ""]
Raised(type, msg) == [kind |-> "raised", type |-> type, value |-> msg]
Returned(id) == [kind |-> "returned", type |-> "str", value |-> id]

NotBuilt == [cls |-> "", raw |-> None, result |-> ValidationFailure]

Init ==
    /\ pc = [t \in Threads |-> "idle"]
    /\ op = [t \in Threads |-> "none"]
    /\ base_url = [t \in Threads |-> ""]
    /\ team_id = [t \in Threads |-> ""]
    /\ config = [t \in Threads |-> None]
    /\ api_key = [t \in Threads |-> None]
    /\ headers = [t \in Threads |-> EmptyDict]
    /\ outcome = [t \in Threads |-> NoOutcome]
    /\ sent = [t \in Threads |-> 0]
    /\ server \in MockAnswers
    /\ module_names = ModuleNames
    /\ built = NotBuilt

-----------------------------------------------------------------------------
(* create_team                                                              *)

\* def create_team(base_url, config, api_key=None): a thread enters the function with
\* fresh locals; the frame of its previous call, if any, is gone.
CreateTeamCall(t) ==
    /\ pc[t] \in {"idle", "done"}
    /\ \E u \in BaseUrls, c \in TeamConfigs, k \in ApiKeys :
        /\ base_url' = [base_url EXCEPT ![t] = u]
        /\ config' = [config EXCEPT ![t] = c]
        /\ api_key' = [api_key EXCEPT ![t] = k]
    /\ team_id' = [team_id EXCEPT ![t] = ""]
    /\ op' = [op EXCEPT ![t] = "create_team"]
    /\ pc' = [pc EXCEPT ![t] = "L52"]
    /\ headers' = [headers EXCEPT ![t] = EmptyDict]
    /\ outcome' = [outcome EXCEPT ![t] = NoOutcome]
    /\ sent' = [sent EXCEPT ![t] = 0]
    /\ UNCHANGED <<server, module_names, built>>

\* headers = {}
CreateTeamInitHeadersShared(t) ==
    /\ pc[t] = "L52" /\ op[t] = "create_team"
    /\ headers' = [u \in Threads |-> EmptyDict]
    /\ pc' = [pc EXCEPT ![t] = "L53"]
    /\ UNCHANGED <<op, base_url, team_id, config, api_key, outcome, sent, server,
                   module_names, built>>

CreateTeamInitHeaders(t) ==
    /\ pc[t] = "L52" /\ op[t] = "create_team"
    /\ headers' = [headers EXCEPT ![t] = EmptyDict]
    /\ pc' = [pc EXCEPT ![t] = "L53"]
    /\ UNCHANGED <<op, base_url, team_id, config, api_key, outcome, sent, server,
                   module_names, built>>

\* if api_key:
CreateTeamTestKey(t) ==
    /\ pc[t] = "L53" /\ op[t] = "create_team"
    /\ pc' = [pc EXCEPT ![t] = IF Truthy(api_key[t]) THEN "L54" ELSE "L57"]
    /\ UNCHANGED <<op, base_url, team_id, config, api_key, headers, outcome, sent, server,
                   module_names, built>>

\* headers["Authorization"] = f"Bearer {api_key}"
CreateTeamSetAuthorization(t) ==
    /\ pc[t] = "L54" /\ op[t] = "create_team"
    /\ headers' = [headers EXCEPT ![t] = DictSet(@, "Authorization", Bearer(api_key[t]))]
    /\ pc' = [pc EXCEPT ![t] = "L57"]
    /\ UNCHANGED <<op, base_url, team_id, config, api_key, outcome, sent, server,
                   module_names, built>>

\* The message of the NotImplementedError: only {base_url} is interpolated.
CreateTeamMessage(u) ==
    "Python SDK scaffold only. Implement:"
        \o "\nrequests.post(f'" \o u \o "/teams', json=config.model_dump(), headers=headers)"

\* An implementation in place of the stub: POST, then return the id of the body.
CreateTeamRaisePosting(t) ==
    /\ pc[t] = "L57" /\ op[t] = "create_team"
    /\ sent' = [sent EXCEPT ![t] = @ + 1]
    /\ outcome' = [outcome EXCEPT ![t] = Returned(server.body.id.val)]
    /\ pc' = [pc EXCEPT ![t] = "done"]
    /\ UNCHANGED <<op, base_url, team_id, config, api_key, headers, server,
                   module_names, built>>

\* The stub with a serializer that blanks the name of the caller's object.
CreateTeamRaiseMutating(t) ==
    /\ pc[t] = "L57" /\ op[t] = "create_team"
    /\ outcome' = [outcome EXCEPT ![t] =
                      Raised("NotImplementedError", CreateTeamMessage(base_url[t]))]
    /\ config' = [config EXCEPT ![t] = [@ EXCEPT !.name = Str("")]]
    /\ pc' = [pc EXCEPT ![t] = "done"]
    /\ UNCHANGED <<op, base_url, team_id, api_key, headers, sent, server,
                   module_names, built>>

\* raise NotImplementedError(...)
CreateTeamRaise(t) ==
    /\ pc[t] = "L57" /\ op[t] = "create_team"
    /\ outcome' = [outcome EXCEPT ![t] =
                      Raised("NotImplementedError", CreateTeamMessage(base_url[t]))]
    /\ pc' = [pc EXCEPT ![t] = "done"]
    /\ UNCHANGED <<op, base_url, team_id, config, api_key, headers, sent, server,
                   module_names, built>>

-----------------------------------------------------------------------------
(* add_agent                                                                *)

\* def add_agent(base_url, team_id, config, api_key=None)
AddAgentCall(t) ==
    /\ pc[t] \in {"idle", "done"}
    /\ \E u \in BaseUrls, i \in TeamIds, c \in AgentConfigs, k \in ApiKeys :
        /\ base_url' = [base_url EXCEPT ![t] = u]
        /\ team_id' = [team_id EXCEPT ![t] = i]
        /\ config' = [config EXCEPT ![t] = c]
        /\ api_key' = [api_key EXCEPT ![t] = k]
    /\ op' = [op EXCEPT ![t] = "add_agent"]
    /\ pc' = [pc EXCEPT ![t] = "L83"]
    /\ headers' = [headers EXCEPT ![t] = EmptyDict]
    /\ outcome' = [outcome EXCEPT ![t] = NoOutcome]
    /\ sent' = [sent EXCEPT ![t] = 0]
    /\ UNCHANGED <<server, module_names, built>>

\* headers = {}
AddAgentInitHeaders(t) ==
    /\ pc[t] = "L83" /\ op[t] = "add_agent"
    /\ headers' = [headers EXCEPT ![t] = EmptyDict]
    /\ pc' = [pc EXCEPT ![t] = "L84"]
    /\ UNCHANGED <<op, base_url, team_id, config, api_key, outcome, sent, server,
                   module_names, built>>

\* if api_key:
AddAgentTestKey(t) ==
    /\ pc[t] = "L84" /\ op[t] = "add_agent"
    /\ pc' = [pc EXCEPT ![t] = IF Truthy(api_key[t]) THEN "L85" ELSE "L88"]
    /\ UNCHANGED <<op, base_url, team_id, config, api_key, headers, outcome, sent, server,
                   module_names, built>>

\* headers["Authorization"] = f"Bearer {api_key}"
AddAgentSetAuthorization(t) ==
    /\ pc[t] = "L85" /\ op[t] = "add_agent"
    /\ headers' = [headers EXCEPT ![t] = DictSet(@, "Authorization", Bearer(api_key[t]))]
    /\ pc' = [pc EXCEPT ![t] = "L88"]
    /\ UNCHANGED <<op, base_url, team_id, config, api_key, outcome, sent, server,
                   module_names, built>>

\* The message of the NotImplementedError: {base_url} is interpolated, {{team_id}} is
\* the escaped literal text {team_id}.
AddAgentMessage(u) ==
    "Python SDK scaffold only. Implement:"
        \o "\nrequests.post(f'" \o u
        \o "/teams/{team_id}/agents', json=config.model_dump(), headers=headers)"

\* raise NotImplementedError(...)
AddAgentRaise(t) ==
    /\ pc[t] = "L88" /\ op[t] = "add_agent"
    /\ outcome' = [outcome EXCEPT ![t] =
                      Raised("NotImplementedError", AddAgentMessage(base_url[t]))]
    /\ pc' = [pc EXCEPT ![t] = "done"]
    /\ UNCHANGED <<op, base_url, team_id, config, api_key, headers, sent, server,
                   module_names, built>>

Next ==
    \E t \in Threads :
        \/ CreateTeamCall(t)
        \/ CreateTeamInitHeaders(t)
        \/ CreateTeamTestKey(t)
        \/ CreateTeamSetAuthorization(t)
        \/ CreateTeamRaise(t)
        \/ AddAgentCall(t)
        \/ AddAgentInitHeaders(t)
        \/ AddAgentTestKey(t)
        \/ AddAgentSetAuthorization(t)
        \/ AddAgentRaise(t)

Spec == Init /\ [][Next]_vars

-----------------------------------------------------------------------------
(* Construction of the pydantic models from raw input.                      *)

\* Model(**raw)
ConstructModel ==
    /\ \E raw \in RawModels :
        built' = [cls |-> "Model", raw |-> Dict(raw), result |-> ValidateModel(raw)]
    /\ UNCHANGED <<callvars, server, module_names>>

\* AgentConfig(**raw)
ConstructAgentConfig ==
    /\ \E raw \in RawAgentConfigs :
        built' = [cls |-> "AgentConfig", raw |-> Dict(raw), result |-> ValidateAgentConfig(raw)]
    /\ UNCHANGED <<callvars, server, module_names>>

\* TeamConfig(**raw)
ConstructTeamConfig ==
    /\ \E raw \in RawTeamConfigs :
        built' = [cls |-> "TeamConfig", raw |-> Dict(raw), result |-> ValidateTeamConfig(raw)]
    /\ UNCHANGED <<callvars, server, module_names>>

\* CreateTeamResponse(**raw)
ConstructCreateTeamResponse ==
    /\ \E raw \in RawBodies :
        built' = [cls |-> "CreateTeamResponse", raw |-> Dict(raw),
                  result |-> ValidateCreateTeamResponse(raw)]
    /\ UNCHANGED <<callvars, server, module_names>>

\* AddAgentResponse(**raw)
ConstructAddAgentResponse ==
    /\ \E raw \in RawBodies :
        built' = [cls |-> "AddAgentResponse", raw |-> Dict(raw),
                  result |-> ValidateAddAgentResponse(raw)]
    /\ UNCHANGED <<callvars, server, module_names>>

NextModels ==
    \/ ConstructModel
    \/ ConstructAgentConfig
    \/ ConstructTeamConfig
    \/ ConstructCreateTeamResponse
    \/ ConstructAddAgentResponse

SpecModels == Init /\ [][NextModels]_vars

-----------------------------------------------------------------------------
(* Properties of the client functions, checked under Spec.                  *)

InCall(t) == pc[t] \notin {"idle", "done"}
HeadersBuilt(t) == pc[t] \in {"L57", "L88", "done"}
SuccessStatus(a) == a.status \in 200..299

\* C1: when the mocked server answers the POST of create_team with a success status and
\* a body that is a valid CreateTeamResponse, create_team returns that body's id.
C1_CreateTeamReturnsServerId ==
    \A t \in Threads :
        (/\ pc[t] = "done"
         /\ op[t] = "create_team"
         /\ SuccessStatus(server)
         /\ CreateTeamResponseOk(server.body))
            => outcome[t] = Returned(server.body.id.val)

\* C2 (as stated): with api_key None the headers carry no Authorization entry; for
\* every api_key string that is supplied the headers are exactly
\* {Authorization: "Bearer " + api_key}.
C2_BearerForEverySuppliedKey ==
    \A t \in Threads :
        HeadersBuilt(t) =>
            IF api_key[t].kind = "none"
            THEN "Authorization" \notin DOMAIN headers[t]
            ELSE /\ DOMAIN headers[t] = {"Authorization"}
                 /\ headers[t]["Authorization"] = "Bearer " \o api_key[t].val

\* C2 (amended): with api_key None or the empty string the headers built by create_team
\* and add_agent are empty; for every non-empty api_key string they are exactly
\* {Authorization: "Bearer " + api_key}.
C2_BearerForNonEmptyKey ==
    \A t \in Threads :
        HeadersBuilt(t) =>
            IF api_key[t].kind = "none" \/ api_key[t].val = ""
            THEN DOMAIN headers[t] = {}
            ELSE /\ DOMAIN headers[t] = {"Authorization"}
                 /\ headers[t]["Authorization"] = "Bearer " \o api_key[t].val

C2_Witness ==
    \E t, u \in Threads :
        /\ pc[t] = "done" /\ op[t] = "create_team" /\ api_key[t] = Str("X")
        /\ DOMAIN headers[t] = {"Authorization"}
        /\ headers[t]["Authorization"] = "Bearer X"
        /\ pc[u] = "done" /\ op[u] = "add_agent" /\ api_key[u] = Str("")
        /\ DOMAIN headers[u] = {}

\* C3: every finished call of create_team or add_agent has issued exactly one request.
C3_ExactlyOneRequest ==
    \A t \in Threads : pc[t] = "done" => sent[t] = 1

\* C4: add_agent answered with HTTP 404 by the server fails with NotFoundError.
C4_NotFoundOn404 ==
    \A t \in Threads :
        (pc[t] = "done" /\ op[t] = "add_agent" /\ server.status = 404)
            => (outcome[t].kind = "raised" /\ outcome[t].type = "NotFoundError")

\* C5: when the body of the server's answer lacks the id field, the call fails with
\* DecodeError.
C5_DecodeErrorOnMissingId ==
    \A t \in Threads :
        (pc[t] = "done" /\ SuccessStatus(server) /\ server.body.id.kind # "str")
            => (outcome[t].kind = "raised" /\ outcome[t].type = "DecodeError")

\* Position of a pc value in the text of its function.
LineOf(l) ==
    CASE l = "idle" -> 0
      [] l \in {"L52", "L83"} -> 1
      [] l \in {"L53", "L84"} -> 2
      [] l \in {"L54", "L85"} -> 3
      [] l \in {"L57", "L88"} -> 4
      [] l = "done" -> 5

StubOutcome ==
    \A t \in Threads :
        /\ sent[t] = 0
        /\ outcome[t].kind # "returned"
        /\ pc[t] # "done" => outcome[t] = NoOutcome
        /\ pc[t] = "done" =>
            /\ outcome[t].kind = "raised"
            /\ outcome[t].type = "NotImplementedError"
            /\ outcome[t].value =
                  IF op[t] = "create_team" THEN CreateTeamMessage(base_url[t])
                                           ELSE AddAgentMessage(base_url[t])
            /\ DOMAIN headers[t] \subseteq {"Authorization"}

\* C8: no call issues a request, no call returns an id, every finished call has built
\* its headers mapping and raised NotImplementedError with the message of its function,
\* and every step of a call moves it forward in its function, so that a call ends
\* after at most four steps.
C8_StubAlwaysRaises ==
    /\ []StubOutcome
    /\ [][\A t \in Threads :
             (InCall(t) /\ pc'[t] # pc[t]) => LineOf(pc'[t]) > LineOf(pc[t])]_vars

C8_Witness ==
    \E t, u \in Threads :
        /\ pc[t] = "done" /\ op[t] = "create_team"
        /\ outcome[t].type = "NotImplementedError"
        /\ pc[u] = "done" /\ op[u] = "add_agent" /\ team_id[u] = "missing"
        /\ outcome[u].type = "NotImplementedError"
        /\ server.status = 201 /\ server.body.id = Str("team_123")

\* C9: a step of one thread leaves the arguments, the headers mapping, the request
\* count and the outcome of every other thread's call as they were.
C9_CallsIndependent ==
    [][\A t \in Threads :
          pc'[t] = pc[t] =>
              /\ headers'[t] = headers[t]
              /\ outcome'[t] = outcome[t]
              /\ sent'[t] = sent[t]
              /\ op'[t] = op[t]
              /\ base_url'[t] = base_url[t]
              /\ team_id'[t] = team_id[t]
              /\ api_key'[t] = api_key[t]
              /\ config'[t] = config[t]]_vars

C9_Witness ==
    \E t, u \in Threads :
        /\ t # u
        /\ pc[t] = "L57" /\ api_key[t] = Str("X") /\ DOMAIN headers[t] = {"Authorization"}
        /\ pc[u] = "L84" /\ api_key[u] = None /\ DOMAIN headers[u] = {}

\* C10: from entry to the end of a call the config passed in keeps its value, and no
\* step binds, rebinds or removes a module-level name.
C10_ArgumentsUnchanged ==
    [][/\ \A t \in Threads : (InCall(t) \/ pc'[t] = pc[t]) => config'[t] = config[t]
       /\ module_names' = module_names]_vars

C10_Witness ==
    \E t, u \in Threads :
        /\ pc[t] = "done" /\ op[t] = "add_agent" /\ config[t] \in AgentConfigs
        /\ config[t].model.val.parameters = SampleParameters
        /\ pc[u] = "done" /\ op[u] = "create_team" /\ config[u] \in TeamConfigs

-----------------------------------------------------------------------------
(* Properties of the pydantic models, checked under SpecModels.             *)

ModelShapeOk(m) ==
    /\ m.provider.kind = "str"
    /\ m.name.kind = "str"
    /\ m.version.kind \in {"absent", "none", "str"}
    /\ m.parameters.kind \in {"absent", "none", "dict"}

\* C6 (as stated): constructing an AgentConfig fails with ValidationError whenever name
\* is the empty string or model is missing, and succeeds only when name is non-empty
\* and model is a valid Model.
C6_EmptyNameOrMissingModelRejected ==
    built.cls = "AgentConfig" =>
        LET r == built.raw.val IN
        /\ (r.name = Str("") \/ r.model.kind \in {"absent", "none"})
              => (~built.result.ok /\ built.result.error = "ValidationError")
        /\ built.result.ok
              => /\ r.name.kind = "str" /\ r.name.val # ""
                 /\ r.model.kind = "dict" /\ ModelShapeOk(r.model.val)

\* C6 (amended): constructing an AgentConfig fails with ValidationError whenever name is
\* missing or model is missing, and succeeds only when name is a string and model is a
\* valid Model; an empty name is accepted.
C6_MissingNameOrModelRejected ==
    built.cls = "AgentConfig" =>
        LET r == built.raw.val IN
        /\ (r.name.kind \in {"absent", "none"} \/ r.model.kind \in {"absent", "none"})
              => (~built.result.ok /\ built.result.error = "ValidationError")
        /\ built.result.ok
              => /\ r.name.kind = "str"
                 /\ r.model.kind = "dict" /\ ModelShapeOk(r.model.val)
        /\ (/\ r.name = Str("")
            /\ r.model.kind = "dict" /\ ModelShapeOk(r.model.val)
            /\ r.instructions.kind \in {"absent", "none", "str"})
              => (built.result.ok /\ built.result.value.name = Str(""))

C6_Witness ==
    /\ built.cls = "AgentConfig"
    /\ built.raw.val.name = Str("")
    /\ built.raw.val.model.kind = "dict"
    /\ built.result.ok
    /\ built.result.value.name = Str("")

\* C7: every successfully constructed Model has a provider among openai, anthropic and
\* google.
C7_ProviderRecognized ==
    (built.cls = "Model" /\ built.result.ok)
        => built.result.value.provider.val \in Providers

====
